---------------------------- MODULE Spec2Model ----------------------------
(*************************************************************************)
(* Texas Hold'em rules engine (poker_game.py: Deck, PokerHand,           *)
(* TexasHoldem) and the simulation orchestrator (game_simulator.py:      *)
(* GameSimulator.simulate_session / _play_single_hand).                  *)
(*                                                                       *)
(* The engine object is the record `game`; every method of TexasHoldem   *)
(* is an operator from the object before the call to the object after    *)
(* the call (field `self`) and the returned value (field `ret`).         *)
(*************************************************************************)
EXTENDS Integers, Sequences, FiniteSets, TLC

VARIABLES
    game,              \* the TexasHoldem instance
    player_names,      \* GameSimulator.player_names
    max_hands,         \* simulate_session(max_hands)
    pc,                \* control point of simulate_session / _play_single_hand
    hands_played,      \* simulate_session local
    betting_round,     \* index into ["preflop","flop","turn","river"]
    players_who_acted, \* _play_single_hand local
    players_to_act,    \* _play_single_hand local
    to_act_idx,        \* position of the for loop over players_to_act
    game_state,        \* _play_single_hand local: the view handed to agents
    hand_actions,      \* _play_single_hand local: the action log (latest entries)
    winners,           \* _play_single_hand local: result of _determine_winner
    last_call,         \* the latest engine call: method, arguments, outcome
    db_calls,          \* the latest calls made on the persistence collaborator
    session_results,   \* run_benchmark local: player_final_chips of each session
    player_stats,      \* run_benchmark local: the statistics per player
    ai_players         \* GameSimulator.players: the counters of each AIPlayer

vars == <<game, player_names, max_hands, pc, hands_played, betting_round,
          players_who_acted, players_to_act, to_act_idx, game_state,
          hand_actions, winners, last_call, db_calls, session_results,
          player_stats, ai_players>>

-----------------------------------------------------------------------------
(* Bounds of the model *)

MaxHands == 2          \* hand limit passed to simulate_session
MaxEngineHands == 2    \* hands the engine harness starts
MaxBet == 4            \* the harness raises the bet-to-match to MaxBet small blinds at most
LogWindow == 1         \* number of latest entries kept in hand_actions and in db_calls

-----------------------------------------------------------------------------
(* Values *)

(* Python's None, and the betting_round argument left at its default *)
None == [none |-> TRUE]
NoRound == ""
Range(s) == {s[i] : i \in 1..Len(s)}
Min(a, b) == IF a <= b THEN a ELSE b

(* a sequence in reverse order *)
Reverse(s) == [i \in 1..Len(s) |-> s[Len(s) - i + 1]]

RECURSIVE SumOver(_, _)
SumOver(f, S) ==
    IF S = {} THEN 0
    ELSE LET x == CHOOSE y \in S : TRUE IN f[x] + SumOver(f, S \ {x})

(* Card(rank, suit): card c of the fresh deck, in the order of
   `for rank in Rank for suit in Suit` *)
NumCards == 52
RankOf(card) == 2 + (card \div 4)
SuitOf(card) == card % 4

(* Deck.__init__ before the shuffle *)
FreshDeck == [i \in 1..NumCards |-> i - 1]

(* Deck.shuffle: random.shuffle yields some permutation of the deck; the
   model draws it from this set of permutations i -> (m*i + b) mod 52 *)
ShuffleParams == {<<1, 0>>, <<1, 10>>}
Shuffles ==
    {[i \in 1..NumCards |-> FreshDeck[((p[1] * (i - 1) + p[2]) % NumCards) + 1]] :
        p \in ShuffleParams}

(* Deck.deal that returns the last card and leaves it in the deck *)
DeckDeal_keeps_card(deck) == [card |-> deck[Len(deck)], deck |-> deck]

(* Deck.deal: pop the last card *)
DeckDeal(deck) == [card |-> deck[Len(deck)], deck |-> SubSeq(deck, 1, Len(deck) - 1)]

-----------------------------------------------------------------------------
(* Hand evaluation: PokerHand, HandEvaluation *)

HIGH_CARD == 1
PAIR == 2
TWO_PAIR == 3
THREE_OF_A_KIND == 4
STRAIGHT == 5
FLUSH == 6
FULL_HOUSE == 7
FOUR_OF_A_KIND == 8
STRAIGHT_FLUSH == 9
ROYAL_FLUSH == 10

HandEvaluation(rank, kickers) == [rank |-> rank, kickers |-> kickers]

RECURSIVE InsertDesc(_, _)
InsertDesc(x, s) ==
    IF s = <<>> THEN <<x>>
    ELSE IF x >= Head(s) THEN <<x>> \o s
    ELSE <<Head(s)>> \o InsertDesc(x, Tail(s))

(* sorted(xs, reverse=True) *)
RECURSIVE SortDesc(_)
SortDesc(s) == IF s = <<>> THEN <<>> ELSE InsertDesc(Head(s), SortDesc(Tail(s)))

(* sorted(set(xs)) *)
RECURSIVE SortedSet(_)
SortedSet(S) ==
    IF S = {} THEN <<>>
    ELSE LET m == CHOOSE x \in S : \A y \in S : x <= y
         IN <<m>> \o SortedSet(S \ {m})

(* Python list comparison a < b (lexicographic, a proper prefix is smaller) *)
RECURSIVE ListLt(_, _)
ListLt(a, b) ==
    IF b = <<>> THEN FALSE
    ELSE IF a = <<>> THEN TRUE
    ELSE IF Head(a) # Head(b) THEN Head(a) < Head(b)
    ELSE ListLt(Tail(a), Tail(b))

EvalLt(a, b) == IF a.rank # b.rank THEN a.rank < b.rank ELSE ListLt(a.kickers, b.kickers)
EvalGt(a, b) == IF a.rank # b.rank THEN a.rank > b.rank ELSE ListLt(b.kickers, a.kickers)
EvalEq(a, b) == a.rank = b.rank /\ a.kickers = b.kickers
EvalGe(a, b) == EvalGt(a, b) \/ EvalEq(a, b)
EvalLe(a, b) == EvalLt(a, b) \/ EvalEq(a, b)

_is_straight(ranks) ==
    LET sorted_ranks == SortedSet(Range(ranks))
    IN  IF Len(sorted_ranks) # 5 THEN FALSE
        ELSE IF sorted_ranks = <<2, 3, 4, 5, 14>> THEN TRUE
        ELSE \A i \in 2..5 : sorted_ranks[i] = sorted_ranks[i - 1] + 1

(* rank_counts[rank] of the dictionary built from ranks *)
RankCount(ranks, r) == Cardinality({i \in 1..Len(ranks) : ranks[i] = r})

(* keys of rank_counts in insertion order *)
RECURSIVE RankKeys(_)
RankKeys(ranks) ==
    IF ranks = <<>> THEN <<>>
    ELSE <<Head(ranks)>> \o RankKeys(SelectSeq(Tail(ranks), LAMBDA r : r # Head(ranks)))

(* the comprehension over rank_counts without its `if count == n` *)
RanksWithCount_ignores_count(ranks, n) == RankKeys(ranks)

(* [rank for rank, count in rank_counts.items() if count == n] *)
RanksWithCount(ranks, n) ==
    SelectSeq(RankKeys(ranks), LAMBDA r : RankCount(ranks, r) = n)

(* evaluate with the ranks taken in the order of the cards, not sorted *)
evaluate_unsorted(cards) ==
    LET ranks == [i \in 1..Len(cards) |-> RankOf(cards[i])]
        suits == [i \in 1..Len(cards) |-> SuitOf(cards[i])]
        keys == RankKeys(ranks)
        is_flush == Cardinality(Range(suits)) = 1
        is_straight == _is_straight(ranks)
        counts == SortDesc([i \in 1..Len(keys) |-> RankCount(ranks, keys[i])])
    IN  IF is_straight /\ is_flush THEN
            IF ranks[1] = 14 THEN HandEvaluation(ROYAL_FLUSH, <<14>>)
            ELSE HandEvaluation(STRAIGHT_FLUSH, <<ranks[1]>>)
        ELSE IF counts = <<4, 1>> THEN
            HandEvaluation(FOUR_OF_A_KIND,
                <<RanksWithCount(ranks, 4)[1], RanksWithCount(ranks, 1)[1]>>)
        ELSE IF counts = <<3, 2>> THEN
            HandEvaluation(FULL_HOUSE,
                <<RanksWithCount(ranks, 3)[1], RanksWithCount(ranks, 2)[1]>>)
        ELSE IF is_flush THEN HandEvaluation(FLUSH, ranks)
        ELSE IF is_straight THEN HandEvaluation(STRAIGHT, <<ranks[1]>>)
        ELSE IF counts = <<3, 1, 1>> THEN
            HandEvaluation(THREE_OF_A_KIND,
                <<RanksWithCount(ranks, 3)[1]>> \o SortDesc(RanksWithCount(ranks, 1)))
        ELSE IF counts = <<2, 2, 1>> THEN
            HandEvaluation(TWO_PAIR,
                SortDesc(RanksWithCount(ranks, 2)) \o <<RanksWithCount(ranks, 1)[1]>>)
        ELSE IF counts = <<2, 1, 1, 1>> THEN
            HandEvaluation(PAIR,
                <<RanksWithCount(ranks, 2)[1]>> \o SortDesc(RanksWithCount(ranks, 1)))
        ELSE HandEvaluation(HIGH_CARD, ranks)

evaluate(cards) ==
    LET ranks == SortDesc([i \in 1..Len(cards) |-> RankOf(cards[i])])
        suits == [i \in 1..Len(cards) |-> SuitOf(cards[i])]
        keys == RankKeys(ranks)
        is_flush == Cardinality(Range(suits)) = 1
        is_straight == _is_straight(ranks)
        counts == SortDesc([i \in 1..Len(keys) |-> RankCount(ranks, keys[i])])
    IN  IF is_straight /\ is_flush THEN
            IF ranks[1] = 14 THEN HandEvaluation(ROYAL_FLUSH, <<14>>)
            ELSE HandEvaluation(STRAIGHT_FLUSH, <<ranks[1]>>)
        ELSE IF counts = <<4, 1>> THEN
            HandEvaluation(FOUR_OF_A_KIND,
                <<RanksWithCount(ranks, 4)[1], RanksWithCount(ranks, 1)[1]>>)
        ELSE IF counts = <<3, 2>> THEN
            HandEvaluation(FULL_HOUSE,
                <<RanksWithCount(ranks, 3)[1], RanksWithCount(ranks, 2)[1]>>)
        ELSE IF is_flush THEN HandEvaluation(FLUSH, ranks)
        ELSE IF is_straight THEN HandEvaluation(STRAIGHT, <<ranks[1]>>)
        ELSE IF counts = <<3, 1, 1>> THEN
            HandEvaluation(THREE_OF_A_KIND,
                <<RanksWithCount(ranks, 3)[1]>> \o SortDesc(RanksWithCount(ranks, 1)))
        ELSE IF counts = <<2, 2, 1>> THEN
            HandEvaluation(TWO_PAIR,
                SortDesc(RanksWithCount(ranks, 2)) \o <<RanksWithCount(ranks, 1)[1]>>)
        ELSE IF counts = <<2, 1, 1, 1>> THEN
            HandEvaluation(PAIR,
                <<RanksWithCount(ranks, 2)[1]>> \o SortDesc(RanksWithCount(ranks, 1)))
        ELSE HandEvaluation(HIGH_CARD, ranks)

(* itertools.combinations(range(lo, n+1), k), in its order of generation *)
RECURSIVE Combinations(_, _, _)
Combinations(lo, n, k) ==
    IF k = 0 THEN << <<>> >>
    ELSE IF n - lo + 1 < k THEN <<>>
    ELSE LET with == Combinations(lo + 1, n, k - 1)
         IN  [i \in 1..Len(with) |-> <<lo>> \o with[i]] \o Combinations(lo + 1, n, k)

Combinations5 == [n \in 0..7 |-> Combinations(1, n, 5)]

(* the loop of _get_best_hand that keeps the first evaluation *)
RECURSIVE BestOver_keeps_first(_, _, _, _)
BestOver_keeps_first(cards, combos, i, best_hand) ==
    IF i > Len(combos) THEN best_hand
    ELSE LET evaluation == evaluate([j \in 1..5 |-> cards[combos[i][j]]])
         IN  BestOver_keeps_first(cards, combos, i + 1,
                                  IF best_hand = None THEN evaluation ELSE best_hand)

RECURSIVE BestOver(_, _, _, _)
BestOver(cards, combos, i, best_hand) ==
    IF i > Len(combos) THEN best_hand
    ELSE LET evaluation == evaluate([j \in 1..5 |-> cards[combos[i][j]]])
         IN  BestOver(cards, combos, i + 1,
                      IF best_hand = None \/ EvalGt(evaluation, best_hand)
                      THEN evaluation ELSE best_hand)

_get_best_hand(cards) == BestOver(cards, Combinations5[Len(cards)], 1, None)

(* The hands that a deck of Shuffles deals at a table of n players: player i
   holds the cards popped at 2i-1 and 2i, the board the first 3, 4 or 5 cards
   popped after the 2n hole cards.  _get_best_hand is tabulated for them once. *)
MaxSeats == 3
DealtHands ==
    UNION {{<<t[1][NumCards - 2 * (i - 1)], t[1][NumCards - 2 * (i - 1) - 1]>> \o
               [k \in 1..t[3] |-> t[1][NumCards - 2 * t[2] - (k - 1)]] : i \in 1..t[2]} :
           t \in Shuffles \X (1..MaxSeats) \X (3..5)}
BestHandTable == {<<cards, _get_best_hand(cards)>> : cards \in DealtHands}
BestHand(cards) ==
    IF cards \in DealtHands
    THEN (CHOOSE entry \in BestHandTable : entry[1] = cards)[2]
    ELSE _get_best_hand(cards)

-----------------------------------------------------------------------------
(* The rules engine: class TexasHoldem *)

FOLD == "fold"
CALL == "call"
RAISE == "raise"
CHECK == "check"

PlayerAction(action, amount) == [action |-> action, amount |-> amount]

(* the outcome of a call that raised *)
Exception == [exception |-> TRUE]

(* TexasHoldem.__init__ *)
TexasHoldem(players, starting_chips, small_blind, big_blind) ==
    [players |-> players,
     starting_chips |-> starting_chips,
     small_blind |-> small_blind,
     big_blind |-> big_blind,
     chips |-> [p \in Range(players) |-> starting_chips],
     deck |-> <<>>,
     community_cards |-> <<>>,
     hole_cards |-> <<>>,
     pot |-> 0,
     current_bet |-> 0,
     player_bets |-> <<>>,
     active_players |-> <<>>,
     folded_players |-> {},
     dealer_position |-> 0]

(* [p for p in self.active_players if p not in self.folded_players] *)
NonFolded(g) == SelectSeq(g.active_players, LAMBDA p : p \notin g.folded_players)

BettingRoundNames == <<"preflop", "flop", "turn", "river">>

_get_game_state(g, tag) ==
    LET tagged == IF tag # NoRound THEN tag
                  ELSE IF g.community_cards = <<>> THEN "preflop"
                  ELSE IF Len(g.community_cards) = 3 THEN "flop"
                  ELSE IF Len(g.community_cards) = 4 THEN "turn"
                  ELSE "river"
        active == NonFolded(g)
    IN  [community_cards |-> g.community_cards,
         pot_size |-> g.pot,
         current_bet |-> g.current_bet,
         player_chips |-> g.chips,
         player_hole_cards |-> g.hole_cards,
         active_players |-> active,
         betting_round |-> tagged,
         to_act |-> IF active # <<>> THEN active[1] ELSE ""]

(* _place_bet without the clamp to the stack *)
_place_bet_unclamped(g, player, amount) ==
    [g EXCEPT !.chips[player] = @ - amount,
              !.player_bets[player] = @ + amount,
              !.pot = @ + amount]

_place_bet(g, player, amount) ==
    LET actual_amount == Min(amount, g.chips[player])
    IN  [g EXCEPT !.chips[player] = @ - actual_amount,
                  !.player_bets[player] = @ + actual_amount,
                  !.pot = @ + actual_amount]

(* the loop of start_hand that deals two hole cards to every active player *)
RECURSIVE DealHoleCards(_, _)
DealHoleCards(g, i) ==
    IF i > Len(g.active_players) THEN g
    ELSE LET first == DeckDeal(g.deck)
             second == DeckDeal(first.deck)
             player == g.active_players[i]
         IN  DealHoleCards(
                 [g EXCEPT !.deck = second.deck,
                           !.hole_cards = [p \in DOMAIN g.hole_cards \cup {player} |->
                                              IF p = player THEN <<first.card, second.card>>
                                              ELSE g.hole_cards[p]]],
                 i + 1)

(* start_hand up to the blinds: fresh deck, reset of the table, hole cards *)
DealtTable(g, shuffled) ==
    DealHoleCards(
        [g EXCEPT !.deck = shuffled,
                  !.community_cards = <<>>,
                  !.hole_cards = <<>>,
                  !.pot = 0,
                  !.current_bet = 0,
                  !.player_bets = [p \in Range(g.players) |-> 0],
                  !.active_players = SelectSeq(g.players, LAMBDA p : g.chips[p] > 0),
                  !.folded_players = {}],
        1)

(* PostBlinds with the bet-to-match set to what the big blind seat posted *)
PostBlinds_bet_is_posted(dealt, sb_player, bb_player) ==
    LET sb_posted == _place_bet(dealt, sb_player, Min(dealt.small_blind, dealt.chips[sb_player]))
        bb_posted == _place_bet(sb_posted, bb_player,
                                Min(sb_posted.big_blind, sb_posted.chips[bb_player]))
    IN  [bb_posted EXCEPT !.current_bet = bb_posted.player_bets[bb_player]]

(* the two blind bets of start_hand and the bet-to-match it sets *)
PostBlinds(dealt, sb_player, bb_player) ==
    LET sb_posted == _place_bet(dealt, sb_player, Min(dealt.small_blind, dealt.chips[sb_player]))
        bb_posted == _place_bet(sb_posted, bb_player,
                                Min(sb_posted.big_blind, sb_posted.chips[bb_player]))
    IN  [bb_posted EXCEPT !.current_bet = bb_posted.big_blind]

(* start_hand with the big blind at the position of the small blind *)
start_hand_one_poster(g, shuffled) ==
    LET dealt == DealtTable(g, shuffled)
        n == Len(dealt.active_players)
        posted == IF n >= 2
                  THEN PostBlinds(dealt,
                           dealt.active_players[((dealt.dealer_position + 1) % n) + 1],
                           dealt.active_players[((dealt.dealer_position + 1 + n) % n) + 1])
                  ELSE dealt
    IN  [self |-> posted, ret |-> _get_game_state(posted, "preflop")]

(* start_hand; shuffled is the deck that Deck() produced *)
start_hand(g, shuffled) ==
    LET dealt == DealtTable(g, shuffled)
        n == Len(dealt.active_players)
        posted == IF n >= 2
                  THEN PostBlinds(dealt,
                           dealt.active_players[((dealt.dealer_position + 1) % n) + 1],
                           dealt.active_players[((dealt.dealer_position + 2) % n) + 1])
                  ELSE dealt
    IN  [self |-> posted, ret |-> _get_game_state(posted, "preflop")]

(* process_action with one of its branches changed:
   "fold_ignored"      a fold leaves the folded set alone
   "folded_may_act"    the folded set is not consulted
   "check_is_call"     a check below the bet-to-match is applied as a call
   "raise_always_sets" a raise sets the bet-to-match whatever its total
   "short_call_folds"  a call for more than the stack is applied as a fold
   "raise_keeps_bet"   a raise places its chips and leaves the bet-to-match *)
process_action_changed(g, player, action, change) ==
    IF (change # "folded_may_act" /\ player \in g.folded_players)
       \/ player \notin Range(g.active_players) THEN
        [self |-> g, ret |-> None]
    ELSE IF action.action = FOLD
            \/ (change = "short_call_folds" /\ action.action = CALL
                /\ g.chips[player] < g.current_bet - g.player_bets[player]) THEN
        LET folded == IF change = "fold_ignored" THEN g
                      ELSE [g EXCEPT !.folded_players = @ \cup {player}]
        IN  [self |-> folded, ret |-> _get_game_state(folded, NoRound)]
    ELSE IF action.action = CALL
            \/ (change = "check_is_call" /\ action.action = CHECK
                /\ g.player_bets[player] < g.current_bet) THEN
        LET call_amount == g.current_bet - g.player_bets[player]
            called == _place_bet(g, player, call_amount)
        IN  [self |-> called, ret |-> _get_game_state(called, NoRound)]
    ELSE IF action.action = RAISE THEN
        LET total_bet == g.player_bets[player] + action.amount
            raised == IF total_bet > g.current_bet \/ change = "raise_always_sets"
                      THEN [_place_bet(g, player, action.amount) EXCEPT
                               !.current_bet = IF change = "raise_keeps_bet" THEN @
                                               ELSE total_bet]
                      ELSE g
        IN  [self |-> raised, ret |-> _get_game_state(raised, NoRound)]
    ELSE IF action.action = CHECK /\ g.player_bets[player] < g.current_bet THEN
        [self |-> g, ret |-> None]
    ELSE [self |-> g, ret |-> _get_game_state(g, NoRound)]

process_action_fold_ignored(g, player, action) ==
    process_action_changed(g, player, action, "fold_ignored")

process_action_folded_may_act(g, player, action) ==
    process_action_changed(g, player, action, "folded_may_act")

process_action_check_is_call(g, player, action) ==
    process_action_changed(g, player, action, "check_is_call")

process_action_raise_always_sets(g, player, action) ==
    process_action_changed(g, player, action, "raise_always_sets")

process_action_short_call_folds(g, player, action) ==
    process_action_changed(g, player, action, "short_call_folds")

process_action_raise_keeps_bet(g, player, action) ==
    process_action_changed(g, player, action, "raise_keeps_bet")

process_action(g, player, action) ==
    IF player \in g.folded_players \/ player \notin Range(g.active_players) THEN
        [self |-> g, ret |-> None]
    ELSE IF action.action = FOLD THEN
        LET folded == [g EXCEPT !.folded_players = @ \cup {player}]
        IN  [self |-> folded, ret |-> _get_game_state(folded, NoRound)]
    ELSE IF action.action = CALL THEN
        LET call_amount == g.current_bet - g.player_bets[player]
            called == _place_bet(g, player, call_amount)
        IN  [self |-> called, ret |-> _get_game_state(called, NoRound)]
    ELSE IF action.action = RAISE THEN
        LET total_bet == g.player_bets[player] + action.amount
            raised == IF total_bet > g.current_bet
                      THEN [_place_bet(g, player, action.amount) EXCEPT !.current_bet = total_bet]
                      ELSE g
        IN  [self |-> raised, ret |-> _get_game_state(raised, NoRound)]
    ELSE IF action.action = CHECK /\ g.player_bets[player] < g.current_bet THEN
        [self |-> g, ret |-> None]
    ELSE [self |-> g, ret |-> _get_game_state(g, NoRound)]

(* max() that returns the first evaluation *)
MaxEval_first(hands, i, best) == best

(* max(player_hands.values()): the first maximal evaluation in dictionary order *)
RECURSIVE MaxEval(_, _, _)
MaxEval(hands, i, best) ==
    IF i > Len(hands) THEN best
    ELSE MaxEval(hands, i + 1, IF EvalGt(hands[i], best) THEN hands[i] ELSE best)

_determine_winner(g) ==
    LET active_players == NonFolded(g)
    IN  IF Len(active_players) = 1 THEN
            LET winner == active_players[1]
            IN  [self |-> [g EXCEPT !.chips[winner] = @ + g.pot],
                 ret |-> [w \in {winner} |-> g.pot]]
        ELSE IF active_players = <<>> \/ 2 + Len(g.community_cards) < 5 THEN
            \* max() of no hands, or of hands that are None: the call raises
            [self |-> g, ret |-> Exception]
        ELSE
            LET player_hands == [i \in 1..Len(active_players) |->
                                    BestHand(g.hole_cards[active_players[i]]
                                             \o g.community_cards)]
                best_evaluation == MaxEval(player_hands, 2, player_hands[1])
                winner_set == {active_players[i] : i \in
                                  {j \in 1..Len(active_players) :
                                      EvalGe(player_hands[j], best_evaluation)}}
                winnings_per_player == g.pot \div Cardinality(winner_set)
            IN  [self |-> [g EXCEPT !.chips = [p \in DOMAIN g.chips |->
                                        IF p \in winner_set
                                        THEN g.chips[p] + winnings_per_player
                                        ELSE g.chips[p]]],
                 ret |-> [w \in winner_set |-> winnings_per_player]]

(* advance_betting_round without the reset of the bet-to-match *)
advance_betting_round_keeps_bet(g) ==
    LET reset == [g EXCEPT !.player_bets = [p \in Range(g.players) |-> 0]]
        one == DeckDeal(reset.deck)
        two == DeckDeal(one.deck)
        three == DeckDeal(two.deck)
    IN  IF reset.community_cards = <<>> THEN
            LET flop == [reset EXCEPT !.community_cards = <<one.card, two.card, three.card>>,
                                      !.deck = three.deck]
            IN  [self |-> flop, ret |-> _get_game_state(flop, "flop")]
        ELSE IF Len(reset.community_cards) = 3 THEN
            LET turn == [reset EXCEPT !.community_cards = Append(@, one.card),
                                      !.deck = one.deck]
            IN  [self |-> turn, ret |-> _get_game_state(turn, "turn")]
        ELSE IF Len(reset.community_cards) = 4 THEN
            LET river == [reset EXCEPT !.community_cards = Append(@, one.card),
                                       !.deck = one.deck]
            IN  [self |-> river, ret |-> _get_game_state(river, "river")]
        ELSE _determine_winner(reset)

advance_betting_round(g) ==
    LET reset == [g EXCEPT !.player_bets = [p \in Range(g.players) |-> 0],
                           !.current_bet = 0]
        one == DeckDeal(reset.deck)
        two == DeckDeal(one.deck)
        three == DeckDeal(two.deck)
    IN  IF reset.community_cards = <<>> THEN
            LET flop == [reset EXCEPT !.community_cards = <<one.card, two.card, three.card>>,
                                      !.deck = three.deck]
            IN  [self |-> flop, ret |-> _get_game_state(flop, "flop")]
        ELSE IF Len(reset.community_cards) = 3 THEN
            LET turn == [reset EXCEPT !.community_cards = Append(@, one.card),
                                      !.deck = one.deck]
            IN  [self |-> turn, ret |-> _get_game_state(turn, "turn")]
        ELSE IF Len(reset.community_cards) = 4 THEN
            LET river == [reset EXCEPT !.community_cards = Append(@, one.card),
                                       !.deck = one.deck]
            IN  [self |-> river, ret |-> _get_game_state(river, "river")]
        ELSE _determine_winner(reset)

(* is_hand_complete that never reports a complete hand *)
is_hand_complete_never(g) == Len(NonFolded(g)) < 0

is_hand_complete(g) == Len(NonFolded(g)) <= 1

should_advance_to_showdown(g) == Len(NonFolded(g)) <= 1 \/ Len(g.community_cards) = 5

(* next_hand that keeps the players without chips in the roster *)
next_hand_keeps_roster(g) ==
    [g EXCEPT !.dealer_position = (g.dealer_position + 1) % Len(g.players)]

next_hand(g) ==
    [g EXCEPT !.dealer_position = (g.dealer_position + 1) % Len(g.players),
              !.players = SelectSeq(g.players, LAMBDA p : g.chips[p] > 0)]

-----------------------------------------------------------------------------
(* The orchestrator: GameSimulator.simulate_session and _play_single_hand *)

MaxRaise == 2          \* agents request raise amounts 0..MaxRaise
RaiseAmounts == 0..MaxRaise

(* what make_decision can return *)
AgentActions ==
    {PlayerAction(a, 0) : a \in {FOLD, CALL, CHECK}} \cup
    {PlayerAction(RAISE, n) : n \in RaiseAmounts}

(* GameSimulator(players, starting_chips, small_blind, big_blind) and the
   max_hands handed to simulate_session *)
SessionConfigs ==
    {[players |-> <<"A", "B">>, starting_chips |-> 4, small_blind |-> 1,
      big_blind |-> 2, max_hands |-> MaxHands],
     [players |-> <<"A", "B", "C">>, starting_chips |-> 2, small_blind |-> 1,
      big_blind |-> 2, max_hands |-> MaxHands],
     [players |-> <<"A">>, starting_chips |-> 4, small_blind |-> 1,
      big_blind |-> 2, max_hands |-> MaxHands]}

(* the record of an engine call *)
NoPlayer == ""
NoAction == PlayerAction("", 0)
Called(method, player, action, ret) ==
    [method |-> method, player |-> player, action |-> action,
     ret |-> IF ret = None THEN "None" ELSE IF ret = Exception THEN "Exception" ELSE "value"]

(* hand_actions.append(entry), keeping the LogWindow latest entries *)
LogAppend(log, entry) ==
    LET appended == Append(log, entry)
    IN  IF Len(appended) <= LogWindow THEN appended
        ELSE SubSeq(appended, Len(appended) - LogWindow + 1, Len(appended))

(* a call on db_integration, keeping the LogWindow latest calls.  The
   simulator is built with a db and simulate_session is given a session_name,
   as run_benchmark does; the ids the collaborator returns are not zero. *)
DbAppend(calls, call) == LogAppend(calls, call)

(* the counters of the AIPlayer objects handed to the GameSimulator *)
AIPlayers(names) ==
    [p \in Range(names) |-> [total_hands |-> 0, hands_won |-> 0, total_winnings |-> 0]]

(* "Update player statistics" of simulate_session, after a hand that returned *)
UpdateStatistics(ps, hand_winners) ==
    [p \in DOMAIN ps |->
        [total_hands |-> ps[p].total_hands + 1,
         hands_won |-> IF p \in DOMAIN hand_winners
                       THEN ps[p].hands_won + 1 ELSE ps[p].hands_won,
         total_winnings |-> IF p \in DOMAIN hand_winners
                            THEN ps[p].total_winnings + hand_winners[p]
                            ELSE ps[p].total_winnings]]

Init ==
    \E cfg \in SessionConfigs :
        /\ game = TexasHoldem(cfg.players, cfg.starting_chips, cfg.small_blind, cfg.big_blind)
        /\ player_names = cfg.players
        /\ max_hands = cfg.max_hands
        /\ pc = "session_loop"
        /\ hands_played = 0
        /\ betting_round = 0
        /\ players_who_acted = {}
        /\ players_to_act = <<>>
        /\ to_act_idx = 0
        /\ game_state = None
        /\ hand_actions = <<>>
        /\ winners = None
        /\ last_call = Called("__init__", NoPlayer, NoAction, game)
        /\ db_calls = DbAppend(<<>>, [call |-> "init_session"])
        /\ session_results = <<>>
        /\ player_stats = None
        /\ ai_players = AIPlayers(player_names)

(* the while loop of simulate_session with `<=` for the hand limit *)
SessionContinues_one_more(time_left) ==
    /\ hands_played <= max_hands
    /\ time_left
    /\ Cardinality({p \in Range(player_names) : game.chips[p] > 0}) > 1

(* the condition of the while loop of simulate_session *)
SessionContinues(time_left) ==
    /\ hands_played < max_hands
    /\ time_left
    /\ Cardinality({p \in Range(player_names) : game.chips[p] > 0}) > 1

(* simulate_session enters the loop body: _play_single_hand calls start_hand *)
StartHand ==
    /\ pc = "session_loop"
    /\ \E time_left \in BOOLEAN : SessionContinues(time_left)
    /\ \E shuffled \in Shuffles :
        LET started == start_hand(game, shuffled)
        IN  /\ game' = started.self
            /\ game_state' = started.ret
            /\ last_call' = Called("start_hand", NoPlayer, NoAction, started.ret)
            /\ db_calls' = DbAppend(db_calls,
                   [call |-> "start_hand", hand_number |-> hands_played + 1,
                    dealer_position |-> game'.dealer_position])
    /\ hand_actions' = <<>>
    /\ betting_round' = 1
    /\ pc' = "street"
    /\ UNCHANGED <<session_results, player_stats, ai_players,
                   player_names, max_hands, hands_played, players_who_acted,
                   players_to_act, to_act_idx, winners>>

(* the while loop of simulate_session ends and the session result is returned *)
SessionEnd ==
    /\ pc = "session_loop"
    /\ \E time_left \in BOOLEAN : ~SessionContinues(time_left)
    /\ db_calls' = DbAppend(db_calls,
           [call |-> "complete_session", hands_played |-> hands_played])
    /\ pc' = "session_done"
    /\ UNCHANGED <<session_results, player_stats, ai_players,
                   game, player_names, max_hands, hands_played, betting_round,
                   players_who_acted, players_to_act, to_act_idx, game_state,
                   hand_actions, winners, last_call>>

(* the for loop over the streets is exhausted, or the hand is complete *)
StreetsDone ==
    /\ pc = "street"
    /\ betting_round > Len(BettingRoundNames) \/ is_hand_complete(game)
    /\ pc' = "showdown"
    /\ UNCHANGED <<db_calls, session_results, player_stats, ai_players,
                   game, player_names, max_hands, hands_played, betting_round,
                   players_who_acted, players_to_act, to_act_idx, game_state,
                   hand_actions, winners, last_call>>

(* one street begins: advance_betting_round except on preflop *)
StreetBegin ==
    /\ pc = "street"
    /\ betting_round <= Len(BettingRoundNames)
    /\ ~is_hand_complete(game)
    /\ IF BettingRoundNames[betting_round] # "preflop"
       THEN LET advanced == advance_betting_round(game)
            IN  /\ game' = advanced.self
                /\ game_state' = advanced.ret
                /\ last_call' = Called("advance_betting_round", NoPlayer, NoAction, advanced.ret)
       ELSE UNCHANGED <<game, game_state, last_call>>
    /\ players_who_acted' = {}
    /\ pc' = "betting"
    /\ UNCHANGED <<db_calls, session_results, player_stats, ai_players,
                   player_names, max_hands, hands_played, betting_round,
                   players_to_act, to_act_idx, hand_actions, winners>>

(* NeedsToAct with every player asked once per round, whatever the bet *)
NeedsToAct_once(g, acted, player) ==
    /\ g.chips[player] > 0
    /\ player \notin acted

(* the players who need to act, as the while loop computes them *)
NeedsToAct(g, acted, player) ==
    /\ g.chips[player] > 0
    /\ IF g.current_bet = 0 THEN player \notin acted
       ELSE g.player_bets[player] < g.current_bet

PlayersToAct(g, acted) == SelectSeq(NonFolded(g), LAMBDA p : NeedsToAct(g, acted, p))

(* the breaks of the while loop *)
BettingIsComplete(g, acted) ==
    \/ Len(NonFolded(g)) <= 1
    \/ /\ PlayersToAct(g, acted) = <<>>
       /\ IF g.current_bet = 0 THEN Cardinality(acted) >= Len(NonFolded(g)) ELSE TRUE

(* the while loop breaks: on to the next street *)
BettingComplete ==
    /\ pc = "betting"
    /\ BettingIsComplete(game, players_who_acted)
    /\ betting_round' = betting_round + 1
    /\ pc' = "street"
    /\ UNCHANGED <<db_calls, session_results, player_stats, ai_players,
                   game, player_names, max_hands, hands_played, players_who_acted,
                   players_to_act, to_act_idx, game_state, hand_actions, winners,
                   last_call>>

(* the while loop goes on to its for loop over players_to_act *)
BettingPass ==
    /\ pc = "betting"
    /\ ~BettingIsComplete(game, players_who_acted)
    /\ players_to_act' = PlayersToAct(game, players_who_acted)
    /\ to_act_idx' = 1
    /\ pc' = "for"
    /\ UNCHANGED <<db_calls, session_results, player_stats, ai_players,
                   game, player_names, max_hands, hands_played, betting_round,
                   players_who_acted, game_state, hand_actions, winners, last_call>>

(* the for loop is exhausted: back to the head of the while loop *)
PassDone ==
    /\ pc = "for"
    /\ to_act_idx > Len(players_to_act)
    /\ pc' = "betting"
    /\ UNCHANGED <<db_calls, session_results, player_stats, ai_players,
                   game, player_names, max_hands, hands_played, betting_round,
                   players_who_acted, players_to_act, to_act_idx, game_state,
                   hand_actions, winners, last_call>>

(* Solicit that does not wait for the outstanding decision: while one agent
   is awaited the loop goes on to the next player of the pass *)
Solicit_ahead ==
    /\ pc \in {"for", "await"}
    /\ LET next == IF pc = "await" THEN to_act_idx + 1 ELSE to_act_idx
       IN  /\ next <= Len(players_to_act)
           /\ IF players_to_act[next] \in game.folded_players
              THEN to_act_idx' = next + 1 /\ pc' = "for"
              ELSE to_act_idx' = next /\ pc' = "await"
    /\ UNCHANGED <<db_calls, session_results, player_stats, ai_players,
                   game, player_names, max_hands, hands_played, betting_round,
                   players_who_acted, players_to_act, game_state, hand_actions,
                   winners, last_call>>

(* one iteration of the for loop up to its await: `continue` for a player in
   the folded set, else make_decision(game_state, hole_cards) is awaited *)
Solicit ==
    /\ pc = "for"
    /\ to_act_idx <= Len(players_to_act)
    /\ IF players_to_act[to_act_idx] \in game.folded_players
       THEN to_act_idx' = to_act_idx + 1 /\ pc' = "for"
       ELSE to_act_idx' = to_act_idx /\ pc' = "await"
    /\ UNCHANGED <<db_calls, session_results, player_stats, ai_players,
                   game, player_names, max_hands, hands_played, betting_round,
                   players_who_acted, players_to_act, game_state, hand_actions,
                   winners, last_call>>

(* the action as validated before process_action *)
Validated(g, player_name, action) ==
    IF action.action = RAISE
    THEN LET coerced == IF action.amount <= 0 THEN g.current_bet ELSE action.amount
         IN  PlayerAction(RAISE, Min(coerced, g.chips[player_name]))
    ELSE action

LogEntry(player, action, amount, round) ==
    [player |-> player, action |-> action, amount |-> amount, betting_round |-> round]

(* the agent returned an action: validate, apply, log *)
AgentReturns ==
    /\ pc = "await"
    /\ \E returned \in AgentActions :
        LET player_name == players_to_act[to_act_idx]
            action == Validated(game, player_name, returned)
            result == process_action(game, player_name, action)
        IN  /\ game' = result.self
            /\ game_state' = IF result.ret # None THEN result.ret ELSE game_state
            /\ players_who_acted' = players_who_acted \cup {player_name}
            /\ hand_actions' = LogAppend(hand_actions,
                   LogEntry(player_name, action.action, action.amount,
                            BettingRoundNames[betting_round]))
            /\ last_call' = Called("process_action", player_name, action, result.ret)
            /\ db_calls' = DbAppend(db_calls,
                   [call |-> "record_action", hand_number |-> hands_played + 1,
                    player |-> player_name,
                    betting_round |-> BettingRoundNames[betting_round],
                    action |-> action.action, amount |-> action.amount,
                    pot_after |-> game'.pot])
    /\ to_act_idx' = to_act_idx + 1
    /\ pc' = "for"
    /\ UNCHANGED <<session_results, player_stats, ai_players,
                   player_names, max_hands, hands_played, betting_round,
                   players_to_act, winners>>

(* asyncio.TimeoutError: forced fold, logged with reason timeout *)
AgentTimeout ==
    /\ pc = "await"
    /\ LET player_name == players_to_act[to_act_idx]
           fold_action == PlayerAction(FOLD, 0)
           result == process_action(game, player_name, fold_action)
       IN  /\ game' = result.self
           /\ players_who_acted' = players_who_acted \cup {player_name}
           /\ hand_actions' = LogAppend(hand_actions,
                  [player |-> player_name, action |-> FOLD, amount |-> 0,
                   betting_round |-> BettingRoundNames[betting_round],
                   reason |-> "timeout"])
           /\ last_call' = Called("process_action", player_name, fold_action, result.ret)
    /\ to_act_idx' = to_act_idx + 1
    /\ pc' = "for"
    /\ UNCHANGED <<db_calls, session_results, player_stats, ai_players,
                   player_names, max_hands, hands_played, betting_round,
                   players_to_act, game_state, winners>>

(* any other exception: forced fold, nothing logged.  The agent call raised,
   or it returned a malformed action: one whose kind is no GameAction passes
   process_action, which matches no branch and returns a fresh view of the
   unchanged table, and raises at `action.action.value` afterwards *)
AgentFails ==
    /\ pc = "await"
    /\ \E malformed \in BOOLEAN :
        LET player_name == players_to_act[to_act_idx]
            fold_action == PlayerAction(FOLD, 0)
            result == process_action(game, player_name, fold_action)
        IN  /\ game' = result.self
            /\ game_state' = IF malformed THEN _get_game_state(game, NoRound)
                              ELSE game_state
            /\ players_who_acted' = players_who_acted \cup {player_name}
            /\ last_call' = Called("process_action", player_name, fold_action, result.ret)
    /\ to_act_idx' = to_act_idx + 1
    /\ pc' = "for"
    /\ UNCHANGED <<db_calls, session_results, player_stats, ai_players,
                   player_names, max_hands, hands_played, betting_round,
                   players_to_act, hand_actions, winners>>

(* winners = game._determine_winner() *)
DetermineWinner ==
    /\ pc = "showdown"
    /\ LET resolved == _determine_winner(game)
       IN  /\ game' = resolved.self
           /\ last_call' = Called("_determine_winner", NoPlayer, NoAction, resolved.ret)
           /\ IF resolved.ret = Exception
              THEN pc' = "hand_failed" /\ UNCHANGED <<winners, db_calls>>
              ELSE /\ pc' = "next_hand"
                   /\ winners' = resolved.ret
                   /\ db_calls' = DbAppend(db_calls,
                          [call |-> "complete_hand", hand_number |-> hands_played + 1,
                           final_pot |-> game'.pot, winners |-> winners'])
    /\ UNCHANGED <<session_results, player_stats, ai_players,
                   player_names, max_hands, hands_played, betting_round,
                   players_who_acted, players_to_act, to_act_idx, game_state,
                   hand_actions>>

(* game.next_hand(); the hand result is returned and counted, and the
   players' counters are updated *)
NextHand ==
    /\ pc = "next_hand"
    /\ game' = next_hand(game)
    /\ last_call' = Called("next_hand", NoPlayer, NoAction, None)
    /\ hands_played' = hands_played + 1
    /\ ai_players' = UpdateStatistics(ai_players, winners)
    /\ pc' = "session_loop"
    /\ UNCHANGED <<db_calls, session_results, player_stats,
                   player_names, max_hands, betting_round, players_who_acted,
                   players_to_act, to_act_idx, game_state, hand_actions, winners>>

(* an exception left _play_single_hand: `except Exception: break` *)
HandFailed ==
    /\ pc = "hand_failed"
    /\ db_calls' = DbAppend(db_calls,
           [call |-> "complete_session", hands_played |-> hands_played])
    /\ pc' = "session_done"
    /\ UNCHANGED <<session_results, player_stats, ai_players,
                   game, player_names, max_hands, hands_played, betting_round,
                   players_who_acted, players_to_act, to_act_idx, game_state,
                   hand_actions, winners, last_call>>

Next ==
    \/ StartHand
    \/ SessionEnd
    \/ StreetsDone
    \/ StreetBegin
    \/ BettingComplete
    \/ BettingPass
    \/ PassDone
    \/ Solicit
    \/ AgentReturns
    \/ AgentTimeout
    \/ AgentFails
    \/ DetermineWinner
    \/ NextHand
    \/ HandFailed

Spec == Init /\ [][Next]_vars

(* The event loop runs the coroutine whenever it can take a step, and every
   awaited agent call ends: it returns, fails, or is cut off at its deadline. *)
FairSpec ==
    /\ Spec
    /\ WF_vars(SessionEnd \/ StartHand)
    /\ WF_vars(StreetsDone)
    /\ WF_vars(StreetBegin)
    /\ WF_vars(BettingComplete)
    /\ WF_vars(BettingPass)
    /\ WF_vars(PassDone)
    /\ WF_vars(Solicit)
    /\ WF_vars(AgentReturns \/ AgentTimeout \/ AgentFails)
    /\ WF_vars(DetermineWinner)
    /\ WF_vars(NextHand)
    /\ WF_vars(HandFailed)

-----------------------------------------------------------------------------
(* The engine driven directly: any caller of the TexasHoldem methods.  A
   hand is start_hand, then process_action and advance_betting_round in any
   order and for any player, then _determine_winner (called directly or by
   advance_betting_round on the river) and next_hand.  hands_played counts
   the hands of the harness. *)

EngineConfigs ==
    {[players |-> <<"A", "B">>, starting_chips |-> 3, small_blind |-> 1, big_blind |-> 2,
      max_hands |-> MaxEngineHands]}

(* heads-up, stacks 100, blinds 5/10, one hand *)
ScenarioConfig ==
    [players |-> <<"A", "B">>, starting_chips |-> 100, small_blind |-> 5, big_blind |-> 10,
     max_hands |-> 1]

EngineActions(g) ==
    {PlayerAction(a, 0) : a \in {FOLD, CALL, CHECK}} \cup
    {PlayerAction(RAISE, n * g.small_blind) : n \in RaiseAmounts}

EngineInitFor(cfg) ==
        /\ game = TexasHoldem(cfg.players, cfg.starting_chips, cfg.small_blind, cfg.big_blind)
        /\ player_names = cfg.players
        /\ max_hands = cfg.max_hands
        /\ pc = "engine_idle"
        /\ hands_played = 0
        /\ betting_round = 0
        /\ players_who_acted = {}
        /\ players_to_act = <<>>
        /\ to_act_idx = 0
        /\ game_state = None
        /\ hand_actions = <<>>
        /\ winners = None
        /\ last_call = Called("__init__", NoPlayer, NoAction, game)
        /\ db_calls = <<>>
        /\ session_results = <<>>
        /\ player_stats = None
        /\ ai_players = AIPlayers(player_names)

EngineInit == \E cfg \in EngineConfigs : EngineInitFor(cfg)

EngineUnchanged ==
    UNCHANGED <<player_names, max_hands, betting_round, players_who_acted,
                players_to_act, to_act_idx, game_state, hand_actions, winners,
                db_calls, session_results, player_stats, ai_players>>

EngineStartHand ==
    /\ pc = "engine_idle"
    /\ hands_played < max_hands
    /\ \E shuffled \in Shuffles :
        LET started == start_hand(game, shuffled)
        IN  /\ game' = started.self
            /\ last_call' = Called("start_hand", NoPlayer, NoAction, started.ret)
    /\ pc' = "engine_hand"
    /\ UNCHANGED hands_played
    /\ EngineUnchanged

EngineProcessAction ==
    /\ pc = "engine_hand"
    /\ \E player \in Range(player_names), action \in EngineActions(game) :
        /\ (action.action = RAISE /\ player \in DOMAIN game.player_bets)
               => game.player_bets[player] + action.amount <= MaxBet * game.small_blind
        /\ LET result == process_action(game, player, action)
           IN  /\ game' = result.self
               /\ last_call' = Called("process_action", player, action, result.ret)
    /\ UNCHANGED <<pc, hands_played>>
    /\ EngineUnchanged

EngineAdvance ==
    /\ pc = "engine_hand"
    /\ LET advanced == advance_betting_round(game)
       IN  /\ game' = advanced.self
           /\ last_call' = Called("advance_betting_round", NoPlayer, NoAction, advanced.ret)
           /\ pc' = IF Len(game.community_cards) = 5 /\ advanced.ret # Exception
                    THEN "engine_resolved" ELSE "engine_hand"
    /\ UNCHANGED hands_played
    /\ EngineUnchanged

EngineDetermineWinner ==
    /\ pc = "engine_hand"
    /\ LET resolved == _determine_winner(game)
       IN  /\ game' = resolved.self
           /\ last_call' = Called("_determine_winner", NoPlayer, NoAction, resolved.ret)
           /\ pc' = IF resolved.ret = Exception THEN "engine_hand" ELSE "engine_resolved"
    /\ UNCHANGED hands_played
    /\ EngineUnchanged

EngineNextHand ==
    /\ pc = "engine_resolved"
    /\ game' = next_hand(game)
    /\ last_call' = Called("next_hand", NoPlayer, NoAction, None)
    /\ hands_played' = hands_played + 1
    /\ pc' = "engine_idle"
    /\ EngineUnchanged

EngineNext ==
    \/ EngineStartHand
    \/ EngineProcessAction
    \/ EngineAdvance
    \/ EngineDetermineWinner
    \/ EngineNextHand

EngineSpec == EngineInit /\ [][EngineNext]_vars

(* the heads-up scenario, played without raising above the big blind *)
ScenarioInit == EngineInitFor(ScenarioConfig)

ScenarioProcessAction == EngineProcessAction /\ game'.current_bet <= game'.big_blind

ScenarioNext ==
    \/ EngineStartHand
    \/ ScenarioProcessAction
    \/ EngineAdvance
    \/ EngineDetermineWinner
    \/ EngineNextHand

ScenarioSpec == ScenarioInit /\ [][ScenarioNext]_vars

-----------------------------------------------------------------------------
(* Properties *)

TotalChips == SumOver(game.chips, DOMAIN game.chips)
StartingTotal == Len(player_names) * game.starting_chips

(* the seat whose agent is awaited *)
Solicited == players_to_act[to_act_idx]

(* C1: in every reachable state of a hand and of a session the stacks plus
   the pot equal the starting stacks (number of players x starting_chips). *)
C1_ChipConservation == TotalChips + game.pot = StartingTotal

(* C2: a hand never stalls: whatever the agents return, every betting round
   completes and the hand reaches showdown resolution. *)
C2_HandNeverStalls == (pc \in {"street", "betting", "for", "await"}) ~> (pc = "showdown")

(* C3: the betting loop of a street ends as soon as no non-folded player
   needs to act, also when non-folded players are all-in and the
   bet-to-match is zero. *)
C3_RoundEndsWhenNobodyNeedsToAct ==
    [][(pc = "betting" /\ PlayersToAct(game, players_who_acted) = <<>>) => pc' = "street"]_vars

(* C4: the view handed to the agent of player p holds no hole cards of any
   player other than p. *)
C4_ViewHidesOtherHoleCards ==
    pc = "await" => DOMAIN game_state.player_hole_cards \subseteq {Solicited}

(* C5: when an agent call times out, raises or returns a malformed action,
   the seat is forced to fold: it is in the folded set afterwards, nothing
   else of the table changes, and the hand goes on with the next player of
   the pass. *)
C5_FailureForcesFold ==
    [][(AgentTimeout \/ AgentFails) =>
          /\ Solicited \in game'.folded_players
          /\ game' = [game EXCEPT !.folded_players = @ \cup {Solicited}]
          /\ pc' = "for"
          /\ to_act_idx' = to_act_idx + 1
          /\ hands_played' = hands_played]_vars

C5_Witness ==
    /\ pc = "for"
    /\ to_act_idx <= Len(players_to_act)
    /\ last_call.method = "process_action"
    /\ last_call.action.action = FOLD
    /\ last_call.player \in game.folded_players
    /\ hand_actions # <<>>
    /\ "reason" \in DOMAIN hand_actions[Len(hand_actions)]
    /\ hand_actions[Len(hand_actions)].player = last_call.player

(* C6: once a player is in the folded set, process_action for that player
   changes nothing and returns no state, and the orchestrator does not
   solicit that player. *)
C6_FoldedNeverActs ==
    /\ \A p \in game.folded_players, a \in AgentActions :
           process_action(game, p, a) = [self |-> game, ret |-> None]
    /\ pc = "await" => Solicited \notin game.folded_players

C6_Witness == pc = "await" /\ game.folded_players # {}

(* the illegal actions: a check below the bet-to-match, any action of a
   folded player or of a player who is not in the active roster *)
IllegalAction(g, player, action) ==
    \/ player \in g.folded_players
    \/ player \notin Range(g.active_players)
    \/ action.action = CHECK /\ g.player_bets[player] < g.current_bet

(* C7: process_action of an illegal action returns no state and leaves the
   engine (stacks, pot, street contributions, bet-to-match, folded set,
   community cards) unchanged. *)
C7_IllegalActionRejected ==
    [][(last_call'.method = "process_action"
          /\ IllegalAction(game, last_call'.player, last_call'.action))
       => (last_call'.ret = "None" /\ game' = game)]_vars

C7_Witness ==
    /\ last_call.method = "process_action"
    /\ last_call.action.action = CHECK
    /\ last_call.ret = "None"
    /\ last_call.player \in Range(game.active_players) \ game.folded_players
    /\ game.player_bets[last_call.player] < game.current_bet

(* C8: no process_action call lowers the bet-to-match. *)
C8_BetToMatchNeverDecreases ==
    [][last_call'.method = "process_action" => game'.current_bet >= game.current_bet]_vars

C8_Witness ==
    /\ last_call.method = "process_action"
    /\ last_call.action.action = RAISE
    /\ last_call.ret = "value"
    /\ game.community_cards = <<>>
    /\ game.current_bet > game.big_blind

(* C9: every movement of chips from a stack to the pot is clamped to the
   stack: no stack is negative. *)
C9_StacksNeverNegative == \A p \in DOMAIN game.chips : game.chips[p] >= 0

C9_Witness ==
    /\ last_call.method = "start_hand"
    /\ Len(game.active_players) >= 2
    /\ game.pot < game.small_blind + game.big_blind
    /\ \E p \in Range(game.active_players) : game.chips[p] = 0

(* C10: heads-up [A, B], stacks 100, blinds 5/10, dealer A: after
   start_hand the pot is 15, B has contributed 10 (big blind) and A has
   contributed 5 (small blind) and owes 5 more to call 10. *)
C10_HeadsUpBlinds ==
    (last_call.method = "start_hand" /\ game.dealer_position = 0) =>
        /\ game.pot = 15
        /\ game.player_bets["B"] = 10
        /\ game.player_bets["A"] = 5
        /\ game.current_bet - game.player_bets["A"] = 5

(* the player may act and owes more than the stack *)
ShortOfCall(g, player) ==
    /\ player \in Range(g.active_players) \ g.folded_players
    /\ g.chips[player] < g.current_bet - g.player_bets[player]

(* C11: a player whose stack is smaller than the amount needed to call may
   call: the call moves exactly the remaining stack to the pot, the stack
   becomes 0 and the player is not folded; the orchestrator solicits no
   player without chips, and only a solicited player is ever folded. *)
C11_ShortStackCallSettles ==
    [][/\ (pc = "await" /\ last_call'.action.action = CALL /\ ShortOfCall(game, Solicited))
           => /\ last_call'.ret = "value"
              /\ game' = [game EXCEPT !.chips[Solicited] = 0,
                                      !.player_bets[Solicited] = @ + game.chips[Solicited],
                                      !.pot = @ + game.chips[Solicited]]
              /\ Solicited \notin game'.folded_players
       /\ pc' = "await" => game'.chips[players_to_act'[to_act_idx']] > 0
       /\ \A p \in game'.folded_players \ game.folded_players :
              pc = "await" /\ p = Solicited /\ game.chips[p] > 0]_vars

C11_Witness ==
    /\ pc = "for"
    /\ last_call.method = "process_action"
    /\ last_call.action.action = CALL
    /\ last_call.ret = "value"
    /\ last_call.player \in Range(NonFolded(game))
    /\ game.chips[last_call.player] = 0
    /\ game.player_bets[last_call.player] < game.current_bet

(* the player may act: dealt in and not folded *)
Eligible(g, player) == player \in Range(g.active_players) \ g.folded_players

(* C12: a raise by an eligible player whose total street contribution does
   not exceed the bet-to-match is accepted as a contribution: the amount,
   clamped to the stack, moves from the stack to the pot and the
   bet-to-match is unchanged. *)
C12_CappedRaiseContributes ==
    [][(/\ last_call'.method = "process_action"
        /\ last_call'.action.action = RAISE
        /\ Eligible(game, last_call'.player)
        /\ game.player_bets[last_call'.player] + last_call'.action.amount <= game.current_bet)
       => LET player == last_call'.player
              moved == Min(last_call'.action.amount, game.chips[player])
          IN  /\ last_call'.ret = "value"
              /\ game' = [game EXCEPT !.chips[player] = @ - moved,
                                      !.player_bets[player] = @ + moved,
                                      !.pot = @ + moved]]_vars

(* C13: after a process_action raise that increases the bet-to-match, the
   new bet-to-match equals the raiser's total street contribution after the
   chips were moved, whatever amount was requested. *)
C13_RaiseSetsBetToContribution ==
    [][(/\ last_call'.method = "process_action"
        /\ last_call'.action.action = RAISE
        /\ game'.current_bet > game.current_bet)
       => game'.current_bet = game'.player_bets[last_call'.player]]_vars

(* C14: after a raise that increases the bet-to-match every other
   non-folded player with chips owes again, also one who acted earlier in the
   round; a street contribution changes only by the owner's own solicited
   action; and while two or more non-folded players remain the round
   completes only when no non-folded player with chips is below the
   bet-to-match. *)
C14_RaiseReopensRound ==
    [][/\ (pc = "await" /\ last_call'.action.action = RAISE
             /\ game'.current_bet > game.current_bet)
           => \A q \in Range(NonFolded(game')) \ {Solicited} :
                  game'.chips[q] > 0 => game'.player_bets[q] < game'.current_bet
       /\ \A q \in DOMAIN game.player_bets \cap DOMAIN game'.player_bets :
              game'.player_bets[q] # game.player_bets[q]
                  => \/ pc = "await" /\ q = Solicited
                     \/ pc \in {"session_loop", "street"}
       /\ (pc = "betting" /\ pc' = "street" /\ Len(NonFolded(game)) >= 2
             /\ game.current_bet > 0)
           => \A q \in Range(NonFolded(game)) :
                  game.chips[q] > 0 => game.player_bets[q] >= game.current_bet]_vars

C14_Witness ==
    /\ pc = "await"
    /\ Solicited \in players_who_acted
    /\ game.player_bets[Solicited] < game.current_bet
    /\ last_call.method = "process_action"
    /\ last_call.action.action = RAISE
    /\ last_call.ret = "value"
    /\ last_call.player # Solicited
    /\ game.player_bets[last_call.player] = game.current_bet

(* C15: the view given to an agent at a solicitation equals the engine's
   state at that moment: pot, bet-to-match, chip counts and the non-folded
   roster reflect every earlier action of the hand, forced folds included. *)
C15_ViewIsCurrent ==
    pc = "await" =>
        /\ game_state.pot_size = game.pot
        /\ game_state.current_bet = game.current_bet
        /\ game_state.player_chips = game.chips
        /\ game_state.active_players = NonFolded(game)

(* the cards popped from deck `before` to leave deck `after`, in the order
   they were popped *)
Popped(before, after) ==
    [k \in 1..(Len(before) - Len(after)) |-> before[Len(before) - k + 1]]

(* C16: advance_betting_round resets every street contribution and the
   bet-to-match to zero; it reveals 3 cards when none are showing, 1 when 3
   or 4 are showing, taken from the deck, and leaves stacks, pot and folded
   set alone; when 5 are showing it deals nothing and resolves the showdown;
   the number of community cards is always 0, 3, 4 or 5. *)
C16_AdvanceBettingRound ==
    [][/\ Len(game'.community_cards) \in {0, 3, 4, 5}
       /\ last_call'.method = "advance_betting_round" =>
            LET showing == Len(game.community_cards)
                reset == [game EXCEPT !.player_bets = [p \in Range(game.players) |-> 0],
                                      !.current_bet = 0]
            IN  /\ game'.player_bets = [p \in Range(game.players) |-> 0]
                /\ game'.current_bet = 0
                /\ IF showing < 5
                   THEN /\ Len(game'.community_cards) = IF showing = 0 THEN 3 ELSE showing + 1
                        /\ game'.community_cards =
                               game.community_cards \o Popped(game.deck, game'.deck)
                        /\ SubSeq(game.deck, 1, Len(game'.deck)) = game'.deck
                        /\ game'.chips = game.chips
                        /\ game'.pot = game.pot
                        /\ game'.folded_players = game.folded_players
                        /\ last_call'.ret = "value"
                   ELSE /\ game'.community_cards = game.community_cards
                        /\ game'.deck = game.deck
                        /\ game' = _determine_winner(reset).self
                        /\ last_call'.ret # "None"]_vars

C16_Witness ==
    /\ last_call.method = "advance_betting_round"
    /\ Len(game.community_cards) = 5
    /\ pc = "engine_resolved"
    /\ Len(game.deck) = NumCards - 2 * Len(game.active_players) - 5

(* the number of community cards showing on each street *)
BoardSize == [preflop |-> 0, flop |-> 3, turn |-> 4, river |-> 5]

(* C17: within a hand the streets are visited in the order preflop, flop,
   turn, river, one at a time, each on its own board; the hand goes to the
   showdown resolution only after the river or once at most one non-folded
   player remains, and resolves once; community cards are dealt only at the
   start of a street with two or more non-folded players. *)
C17_StreetOrder ==
    [][/\ betting_round' # betting_round
           => \/ pc = "session_loop" /\ betting_round' = 1
              \/ pc = "betting" /\ betting_round' = betting_round + 1
       /\ pc' \in {"betting", "for", "await"}
           => /\ betting_round' \in 1..Len(BettingRoundNames)
              /\ Len(game'.community_cards) = BoardSize[BettingRoundNames[betting_round']]
       /\ game'.community_cards # game.community_cards
           => \/ pc = "session_loop" /\ game'.community_cards = <<>>
              \/ pc = "street" /\ pc' = "betting" /\ Len(NonFolded(game)) >= 2
       /\ (pc' = "showdown" /\ pc # "showdown")
           => /\ pc = "street"
              /\ Len(NonFolded(game)) <= 1 \/ betting_round > Len(BettingRoundNames)
       /\ (pc = "showdown" /\ pc' # "showdown")
           => /\ last_call'.method = "_determine_winner"
              /\ pc' \in {"next_hand", "hand_failed"}
       /\ (pc # "showdown" /\ last_call'.method = "_determine_winner")
           => last_call' = last_call /\ game'.chips = game.chips]_vars

C17_Witness ==
    /\ pc = "next_hand"
    /\ betting_round = Len(BettingRoundNames) + 1
    /\ Len(game.community_cards) = 5
    /\ Len(NonFolded(game)) >= 2
    /\ last_call.method = "_determine_winner"

(* the best evaluation of a non-folded player at the showdown *)
ShowdownHand(g, p) == BestHand(g.hole_cards[p] \o g.community_cards)

(* C18: at the showdown resolution a single non-folded player is credited
   the entire pot; otherwise the winners are exactly the non-folded players
   whose best evaluation is the maximum among the non-folded players, each
   is credited the pot divided by the number of winners (integer division),
   nobody else is credited, and the mapping returned is winner to amount. *)
C18_ShowdownResolution ==
    [][(pc = "showdown" /\ pc' # "showdown" /\ NonFolded(game) # <<>>)
       => LET remaining == Range(NonFolded(game))
              best == IF Cardinality(remaining) = 1 THEN remaining
                      ELSE {p \in remaining :
                               \A q \in remaining :
                                   ~EvalLt(ShowdownHand(game, p), ShowdownHand(game, q))}
              share == game.pot \div Cardinality(best)
          IN  /\ pc' = "next_hand"
              /\ winners' = [w \in best |-> share]
              /\ game'.chips = [p \in DOMAIN game.chips |->
                                   IF p \in best THEN game.chips[p] + share
                                   ELSE game.chips[p]]
              /\ \A p \in game.folded_players : game'.chips[p] = game.chips[p]]_vars

C18_Witness ==
    /\ pc = "next_hand"
    /\ last_call.method = "_determine_winner"
    /\ Len(NonFolded(game)) >= 2
    /\ Cardinality(DOMAIN winners) = 1
    /\ \E w \in DOMAIN winners : winners[w] = game.pot /\ winners[w] > 0

-----------------------------------------------------------------------------
(* The engine driven directly at a table of three short stacks, by calls and
   folds only: players bust at the showdown and later hands are played by
   the players who are left. *)

MaxRosterHands == 2    \* hands the three-player harness starts

RosterConfig ==
    [players |-> <<"A", "B", "C">>, starting_chips |-> 2, small_blind |-> 1, big_blind |-> 2,
     max_hands |-> MaxRosterHands]

RosterInit == EngineInitFor(RosterConfig)

RosterProcessAction == EngineProcessAction /\ last_call'.action.action \in {FOLD, CALL}

RosterNext ==
    \/ EngineStartHand
    \/ RosterProcessAction
    \/ EngineAdvance
    \/ EngineDetermineWinner
    \/ EngineNextHand

RosterSpec == RosterInit /\ [][RosterNext]_vars

(* the seat start_hand treats as the dealer among the seats it deals in: the
   small blind is the seat after it *)
DealerSeat(dealt_in, dealer_position) ==
    dealt_in[(dealer_position % Len(dealt_in)) + 1]

(* the seats start_hand will deal in *)
SeatsWithChips(g) == SelectSeq(g.players, LAMBDA p : g.chips[p] > 0)

(* position of a seat in a roster *)
SeatIndex(roster, seat) == CHOOSE i \in 1..Len(roster) : roster[i] = seat

(* the first seat after `seat`, in roster order and wrapping, with a positive
   stack *)
NextFundedSeat(roster, seat, chips) ==
    LET n == Len(roster)
        from == SeatIndex(roster, seat)
        step == CHOOSE k \in 1..n :
                    /\ chips[roster[((from - 1 + k) % n) + 1]] > 0
                    /\ \A j \in 1..(k - 1) : chips[roster[((from - 1 + j) % n) + 1]] = 0
    IN  roster[((from - 1 + step) % n) + 1]

(* C19: after next_hand the seat that acts as dealer in the following hand
   is the next seat, in roster order after the dealer of the hand just
   completed, that has a positive stack. *)
C19_DealerMovesToNextFundedSeat ==
    [][(pc = "engine_resolved" /\ last_call'.method = "next_hand"
          /\ SeatsWithChips(game') # <<>>)
       => DealerSeat(SeatsWithChips(game'), game'.dealer_position)
            = NextFundedSeat(player_names,
                             DealerSeat(game.active_players, game.dealer_position),
                             game.chips)]_vars

(* C20: a player whose stack is zero when a hand completes takes no part in
   a later hand: start_hand drops the seat from the roster, deals it no hole
   cards and takes no blind from it; during the hand the seat holds no cards,
   has no chips and is credited none, and process_action for it changes
   nothing. *)
C20_BustedSeatSitsOut ==
    [][/\ (pc = "engine_idle" /\ last_call'.method = "start_hand")
           => \A p \in Range(player_names) :
                  game.chips[p] = 0
                      => /\ p \notin Range(game'.players)
                         /\ p \notin Range(game'.active_players)
                         /\ p \notin DOMAIN game'.hole_cards
                         /\ p \in DOMAIN game'.player_bets => game'.player_bets[p] = 0
                         /\ game'.chips[p] = 0
       /\ pc' \in {"engine_hand", "engine_resolved"}
           => \A p \in Range(player_names) \ Range(game'.active_players) :
                  /\ p \notin Range(game'.players)
                  /\ p \notin DOMAIN game'.hole_cards
                  /\ game'.chips[p] = 0
       /\ (last_call'.method = "process_action"
             /\ last_call'.player \notin Range(game.active_players))
           => last_call'.ret = "None" /\ game' = game]_vars

C20_Witness ==
    /\ pc = "engine_resolved"
    /\ hands_played >= 1
    /\ last_call.method \in {"_determine_winner", "advance_betting_round"}
    /\ Len(game.active_players) = 2
    /\ Len(NonFolded(game)) = 2
    /\ \E p \in Range(player_names) \ Range(game.active_players) : game.chips[p] = 0

(* C21: start_hand with two or more seats holding chips: the small and the
   big blind are posted by the seats at positions dealer_position + 1 and
   dealer_position + 2, modulo the number of seats with chips, each capped at
   the poster's stack; the pot is the sum of the two amounts posted, no other
   seat contributes, the folded set is empty and the bet-to-match is the big
   blind. *)
C21_BlindsAtStartHand ==
    [][(pc = "engine_idle" /\ last_call'.method = "start_hand"
          /\ Len(SeatsWithChips(game)) >= 2)
       => LET seats == SeatsWithChips(game)
              n == Len(seats)
              sb_player == seats[((game.dealer_position + 1) % n) + 1]
              bb_player == seats[((game.dealer_position + 2) % n) + 1]
              sb_amount == Min(game.small_blind, game.chips[sb_player])
              bb_amount == Min(game.big_blind, game.chips[bb_player])
          IN  /\ sb_player # bb_player
              /\ game'.player_bets = [p \in Range(game.players) |->
                                         IF p = sb_player THEN sb_amount
                                         ELSE IF p = bb_player THEN bb_amount ELSE 0]
              /\ game'.chips = [p \in DOMAIN game.chips |->
                                   IF p = sb_player THEN game.chips[p] - sb_amount
                                   ELSE IF p = bb_player THEN game.chips[p] - bb_amount
                                   ELSE game.chips[p]]
              /\ game'.pot = sb_amount + bb_amount
              /\ game'.folded_players = {}
              /\ game'.current_bet = game.big_blind]_vars

C21_Witness ==
    /\ pc = "engine_hand"
    /\ last_call.method = "start_hand"
    /\ hands_played >= 1
    /\ Len(game.active_players) = 2
    /\ game.current_bet = game.big_blind
    /\ \E p \in Range(game.active_players) :
           /\ game.chips[p] = 0
           /\ game.player_bets[p] > 0
           /\ game.player_bets[p] < game.big_blind
           /\ game.pot = game.player_bets[p] + game.small_blind

(* the players of the session who have chips *)
Funded == {p \in Range(player_names) : game.chips[p] > 0}

(* C22: simulate_session starts a hand only while hands_played is below
   max_hands and two or more players have chips (and time is left);
   hands_played never exceeds max_hands; with fewer than two players holding
   chips the only step of the session is to return its result: no hand is
   started, no engine call is made and nothing fails. *)
C22_SessionBounds ==
    [][/\ (pc = "session_loop" /\ pc' # "session_loop" /\ pc' # "session_done")
           => /\ SessionContinues(TRUE)
              /\ pc' = "street"
              /\ last_call'.method = "start_hand"
       /\ hands_played' <= max_hands
       /\ hands_played' # hands_played
           => /\ hands_played' = hands_played + 1
              /\ pc = "next_hand" /\ pc' = "session_loop"
       /\ (pc = "session_loop" /\ Cardinality(Funded) < 2)
           => /\ pc' = "session_done"
              /\ game' = game
              /\ last_call' = last_call
              /\ hands_played' = hands_played]_vars

C22_Witness ==
    /\ pc = "session_done"
    /\ hands_played < max_hands
    /\ Cardinality(Funded) < 2
    /\ last_call.method \in {"__init__", "next_hand"}

-----------------------------------------------------------------------------
(* GameSimulator.run_benchmark: num_sessions sessions are simulated one after
   the other and the statistics are computed from their results.  A session
   is taken by what it returns: the final chip count of every player. *)

MaxSessions == 2       \* num_sessions passed to run_benchmark
MaxFinalChips == 2     \* a session ends with 0..MaxFinalChips chips per player
MaxSessionHands == 1   \* hands played in a session of the benchmark

BenchmarkConfig ==
    [players |-> <<"A", "B">>, starting_chips |-> 1, small_blind |-> 1, big_blind |-> 2,
     max_hands |-> MaxHands]

(* GameResults.player_final_chips of a session: somebody holds chips *)
FinalChips ==
    {final \in [Range(BenchmarkConfig.players) -> 0..MaxFinalChips] :
        \E p \in DOMAIN final : final[p] > 0}

(* max(session.player_final_chips.values()) *)
MaxChips(final) == CHOOSE m \in Range([i \in 1..Len(BenchmarkConfig.players) |->
                                          final[BenchmarkConfig.players[i]]]) :
                       \A p \in DOMAIN final : final[p] <= m

RECURSIVE TotalFinalChips(_, _)
TotalFinalChips(results, player) ==
    IF results = <<>> THEN 0
    ELSE Head(results)[player] + TotalFinalChips(Tail(results), player)

(* the statistics of one player; the quotients average_chips_per_session,
   win_rate and roi are left out *)
PlayerStats(results, player, starting_chips, num_sessions) ==
    LET total_chips == TotalFinalChips(results, player)
        sessions_won == Cardinality({i \in 1..Len(results) :
                                        results[i][player] = MaxChips(results[i])})
    IN  [total_final_chips |-> total_chips,
         sessions_won |-> sessions_won,
         total_profit |-> total_chips - starting_chips * num_sessions]

BenchmarkInit ==
    /\ game = TexasHoldem(BenchmarkConfig.players, BenchmarkConfig.starting_chips,
                          BenchmarkConfig.small_blind, BenchmarkConfig.big_blind)
    /\ player_names = BenchmarkConfig.players
    /\ max_hands = BenchmarkConfig.max_hands
    /\ pc = "run_benchmark"
    /\ hands_played = 0
    /\ betting_round = 0
    /\ players_who_acted = {}
    /\ players_to_act = <<>>
    /\ to_act_idx = 0
    /\ game_state = None
    /\ hand_actions = <<>>
    /\ winners = None
    /\ last_call = Called("__init__", NoPlayer, NoAction, game)
    /\ db_calls = <<>>
    /\ session_results = <<>>
    /\ player_stats = None
    /\ ai_players = AIPlayers(player_names)

BenchmarkUnchanged ==
    UNCHANGED <<game, player_names, max_hands, betting_round,
                players_who_acted, players_to_act, to_act_idx, game_state,
                hand_actions, winners, last_call, db_calls>>

(* the results a hand of a session can return: the winners, each with the
   same winnings *)
HandWinners ==
    UNION {[winner_set -> {winnings_per_player}] :
              winner_set \in SUBSET Range(BenchmarkConfig.players) \ {{}},
              winnings_per_player \in 1..BenchmarkConfig.big_blind}

(* one pass of `for session_num in range(num_sessions)` begins: the
   players' counters are reset and simulate_session is called *)
BenchmarkReset ==
    /\ pc = "run_benchmark"
    /\ Len(session_results) < MaxSessions
    /\ ai_players' = [p \in DOMAIN ai_players |->
                         [total_hands |-> 0, hands_won |-> 0, total_winnings |-> 0]]
    /\ hands_played' = 0
    /\ pc' = "simulate_session"
    /\ UNCHANGED <<session_results, player_stats>>
    /\ BenchmarkUnchanged

(* a hand of the session returns and the players' counters are updated *)
BenchmarkHand ==
    /\ pc = "simulate_session"
    /\ hands_played < MaxSessionHands
    /\ \E hand_winners \in HandWinners :
           ai_players' = UpdateStatistics(ai_players, hand_winners)
    /\ hands_played' = hands_played + 1
    /\ UNCHANGED <<pc, session_results, player_stats>>
    /\ BenchmarkUnchanged

(* simulate_session returns and its result is appended *)
BenchmarkSession ==
    /\ pc = "simulate_session"
    /\ \E player_final_chips \in FinalChips :
           session_results' = Append(session_results, player_final_chips)
    /\ pc' = "run_benchmark"
    /\ UNCHANGED <<hands_played, player_stats, ai_players>>
    /\ BenchmarkUnchanged

(* the loop is exhausted: the statistics are computed and returned *)
BenchmarkStatistics ==
    /\ pc = "run_benchmark"
    /\ Len(session_results) = MaxSessions
    /\ player_stats' = [p \in Range(player_names) |->
                           PlayerStats(session_results, p, game.starting_chips, MaxSessions)]
    /\ pc' = "benchmark_done"
    /\ UNCHANGED <<hands_played, session_results, ai_players>>
    /\ BenchmarkUnchanged

BenchmarkNext ==
    \/ BenchmarkReset
    \/ BenchmarkHand
    \/ BenchmarkSession
    \/ BenchmarkStatistics

BenchmarkSpec == BenchmarkInit /\ [][BenchmarkNext]_vars

(* the sessions in which the player ended with strictly more chips than
   every other player *)
SessionsWonOutright(results, player) ==
    {i \in 1..Len(results) :
        \A q \in DOMAIN results[i] \ {player} : results[i][player] > results[i][q]}

(* C23: in the statistics a player is credited with a session only if the
   player's final chip count in it is strictly higher than every other
   player's; the sessions_won values of all players sum to at most the number
   of sessions. *)
C23_SessionsWonStrict ==
    pc = "benchmark_done" =>
        /\ \A p \in Range(player_names) :
               player_stats[p].sessions_won
                   = Cardinality(SessionsWonOutright(session_results, p))
        /\ SumOver([p \in Range(player_names) |-> player_stats[p].sessions_won],
                   Range(player_names)) <= Len(session_results)

(* C24: whenever the orchestrator forces a fold for a seat, after a timeout
   or after any other failure of the agent call, the action log of the hand
   gains exactly one entry, a fold of that seat, and no entry for the action
   the agent returned. *)
C24_ForcedFoldLogged ==
    [][(AgentTimeout \/ AgentFails)
       => /\ hand_actions' # <<>>
          /\ LET entry == hand_actions'[Len(hand_actions')]
             IN  /\ entry.player = Solicited
                 /\ entry.action = FOLD
                 /\ entry.amount = 0
                 /\ hand_actions' = LogAppend(hand_actions, entry)]_vars

(* the latest call on the persistence collaborator *)
DbLast(calls) == calls[Len(calls)]

(* the calls that may follow one another: begin-session, then per hand
   begin-hand, record-action any number of times, complete-hand, and
   complete-session last *)
DbOrder ==
    {<<"init_session", "start_hand">>, <<"init_session", "complete_session">>,
     <<"start_hand", "record_action">>, <<"start_hand", "complete_hand">>,
     <<"record_action", "record_action">>, <<"record_action", "complete_hand">>,
     <<"complete_hand", "start_hand">>, <<"complete_hand", "complete_session">>}

(* C25: the calls on the persistence collaborator are ordered begin-session,
   per hand begin-hand, record-action, complete-hand, and complete-session at
   the end; every action applied to the engine in a hand, forced folds
   included, is recorded by one record-action call of that hand, and
   record-action is called only for the hand in progress. *)
C25_PersistenceCalls ==
    [][/\ db_calls # <<>> /\ db_calls' # <<>>
       /\ db_calls' # db_calls
           => <<DbLast(db_calls).call, DbLast(db_calls').call>> \in DbOrder
       /\ (pc = "await" /\ last_call'.ret = "value")
           => /\ DbLast(db_calls').call = "record_action"
              /\ DbLast(db_calls').hand_number = hands_played + 1
              /\ DbLast(db_calls').player = Solicited
              /\ DbLast(db_calls').action = last_call'.action.action
              /\ db_calls' = DbAppend(db_calls, DbLast(db_calls'))
       /\ (db_calls' # db_calls /\ DbLast(db_calls').call = "record_action")
           => /\ pc = "await"
              /\ DbLast(db_calls').hand_number = hands_played + 1]_vars

(* the chips the player needs to match the bet-to-match *)
CallAmount(g, player) == g.current_bet - g.player_bets[player]

(* C26: before a raise returned by an agent is applied, an amount <= 0 is
   replaced by the amount of a call (the chips the player needs to match the
   bet-to-match), and every amount is clamped to the stack of the player:
   the amount passed to process_action never exceeds the stack. *)
C26_RaiseAmountValidated ==
    [][pc = "await"
       => /\ \A returned \in AgentActions :
                 returned.action = RAISE
                     => Validated(game, Solicited, returned)
                            = PlayerAction(RAISE,
                                  Min(IF returned.amount <= 0
                                      THEN CallAmount(game, Solicited)
                                      ELSE returned.amount,
                                      game.chips[Solicited]))
          /\ last_call'.action.action = RAISE
                 => last_call'.action.amount <= game.chips[Solicited]]_vars

(* C27: control is sequential.  While an agent is awaited the only step is
   the end of that call, which hands an action of the solicited player (the
   one returned, or the forced fold) to the engine before any other player is
   solicited; a hand starts only after the session was set up or after the
   previous hand was resolved by _determine_winner and the dealer was
   advanced by next_hand. *)
C27_SequentialControl ==
    [][/\ pc = "await"
           => /\ pc' = "for"
              /\ to_act_idx' = to_act_idx + 1
              /\ last_call'.method = "process_action"
              /\ last_call'.player = Solicited
              /\ players_who_acted' = players_who_acted \cup {Solicited}
       /\ pc' = "await"
           => /\ pc = "for"
              /\ to_act_idx' = to_act_idx
              /\ game' = game
       /\ (pc = "session_loop" /\ pc' = "street")
           => IF hands_played = 0 THEN last_call.method = "__init__"
              ELSE last_call.method = "next_hand"
       /\ pc' = "next_hand" => pc = "showdown" /\ last_call'.method = "_determine_winner"
       /\ last_call'.method = "next_hand"
           => last_call' = last_call \/ (pc = "next_hand" /\ pc' = "session_loop")]_vars

C27_Witness ==
    /\ pc = "await"
    /\ hands_played >= 1
    /\ to_act_idx = 2
    /\ last_call.method = "process_action"
    /\ last_call.player = players_to_act[1]
    /\ last_call.ret = "value"

-----------------------------------------------------------------------------
(* PokerHand.evaluate called directly on five distinct cards, given in any
   order. *)

(* Card(rank, suit) *)
Card(rank, suit) == (rank - 2) * 4 + suit

(* the cards the hands are drawn from: 2 3 4 5 6 T J Q K A of one suit, the
   5 of the three other suits and a second A *)
EvalDeck ==
    {Card(r, 0) : r \in {2, 3, 4, 5, 6, 10, 11, 12, 13, 14}} \cup
    {Card(5, 1), Card(5, 2), Card(5, 3), Card(14, 1)}

(* five distinct cards of EvalDeck, in ascending order of the deck *)
EvalHands == {SortedSet(S) : S \in {T \in SUBSET EvalDeck : Cardinality(T) = 5}}

(* the orders in which five cards can be given *)
HandOrders == {o \in [1..5 -> 1..5] : \A i, j \in 1..5 : o[i] = o[j] => i = j}

(* the record of a call of evaluate *)
Evaluated(cards) == [method |-> "evaluate", cards |-> cards, ret |-> evaluate(cards)]

EvaluateInit ==
    /\ game = TexasHoldem(<<>>, 0, 0, 0)
    /\ player_names = <<>>
    /\ max_hands = 0
    /\ pc = "evaluate"
    /\ hands_played = 0
    /\ betting_round = 0
    /\ players_who_acted = {}
    /\ players_to_act = <<>>
    /\ to_act_idx = 0
    /\ game_state = None
    /\ hand_actions = <<>>
    /\ winners = None
    /\ last_call = Called("__init__", NoPlayer, NoAction, game)
    /\ db_calls = <<>>
    /\ session_results = <<>>
    /\ player_stats = None
    /\ ai_players = AIPlayers(player_names)

Evaluate ==
    /\ pc = "evaluate"
    /\ \E hand \in EvalHands, order \in HandOrders :
           last_call' = Evaluated([i \in 1..5 |-> hand[order[i]]])
    /\ pc' = "evaluated"
    /\ UNCHANGED <<game, player_names, max_hands, hands_played, betting_round,
                   players_who_acted, players_to_act, to_act_idx, game_state,
                   hand_actions, winners, db_calls, session_results, player_stats, ai_players>>

(* seven distinct cards of EvalDeck, in ascending and in descending order *)
SevenCardHands ==
    UNION {{SortedSet(S), Reverse(SortedSet(S))} :
              S \in {T \in SUBSET EvalDeck : Cardinality(T) = 7}}

(* _get_best_hand called on two hole cards and five community cards *)
GetBestHand ==
    /\ pc = "evaluate"
    /\ \E cards \in SevenCardHands :
           last_call' = [method |-> "_get_best_hand", cards |-> cards,
                         ret |-> _get_best_hand(cards)]
    /\ pc' = "best_hand"
    /\ UNCHANGED <<game, player_names, max_hands, hands_played, betting_round,
                   players_who_acted, players_to_act, to_act_idx, game_state,
                   hand_actions, winners, db_calls, session_results, player_stats, ai_players>>

EvaluateNext ==
    \/ Evaluate
    \/ GetBestHand

EvaluateSpec == EvaluateInit /\ [][EvaluateNext]_vars

(* the ranks and the suits of the cards of a hand *)
RanksOf(cards) == {RankOf(cards[i]) : i \in 1..Len(cards)}
SuitsOf(cards) == {SuitOf(cards[i]) : i \in 1..Len(cards)}

AceLow == {14, 2, 3, 4, 5}

(* five consecutive ranks, the ace counting low in A-2-3-4-5 *)
Straight(cards) ==
    \/ RanksOf(cards) = AceLow
    \/ \E low \in 2..10 : RanksOf(cards) = low..(low + 4)

(* the high card of a straight: 5 in A-2-3-4-5 *)
StraightHigh(cards) ==
    IF RanksOf(cards) = AceLow THEN 5
    ELSE CHOOSE r \in RanksOf(cards) : \A q \in RanksOf(cards) : q <= r

(* the evaluations of the straights of mixed suits other than A-2-3-4-5 *)
HigherStraights ==
    {evaluate(hand) : hand \in {h \in EvalHands :
        Straight(h) /\ RanksOf(h) # AceLow /\ Cardinality(SuitsOf(h)) > 1}}

(* C28: A-2-3-4-5 of mixed suits evaluates to a straight whose tiebreak is
   the rank 5, and the evaluation compares strictly below the evaluation of
   every other straight, the 6-high straight 2-3-4-5-6 among them. *)
C28_AceLowStraight ==
    (pc = "evaluated" /\ RanksOf(last_call.cards) = AceLow
       /\ Cardinality(SuitsOf(last_call.cards)) > 1)
    => /\ last_call.ret = HandEvaluation(STRAIGHT, <<5>>)
       /\ \A higher \in HigherStraights : EvalLt(last_call.ret, higher)

(* C29: evaluate classifies a hand as royal flush exactly when it is
   10-J-Q-K-A of one suit; every other straight flush, A-2-3-4-5 of one suit
   included, is classified straight flush with its high card as tiebreak. *)
C29_RoyalFlushOnlyAceHigh ==
    pc = "evaluated"
    => LET cards == last_call.cards
           straight_flush == Straight(cards) /\ Cardinality(SuitsOf(cards)) = 1
       IN  /\ last_call.ret.rank = ROYAL_FLUSH
                  <=> (straight_flush /\ RanksOf(cards) = 10..14)
           /\ (straight_flush /\ RanksOf(cards) # 10..14)
                  => last_call.ret = HandEvaluation(STRAIGHT_FLUSH, <<StraightHigh(cards)>>)

(* C30: evaluate returns the same category and the same tiebreak sequence
   for every order in which the five cards of a hand are given. *)
C30_OrderInvariant ==
    pc = "evaluated"
    => last_call.ret = evaluate(SortedSet(Range(last_call.cards)))

C30_Witness ==
    /\ pc = "evaluated"
    /\ last_call.ret.rank = TWO_PAIR
    /\ last_call.ret.kickers = <<14, 5, 10>>
    /\ RankOf(last_call.cards[1]) = 10
    /\ RankOf(last_call.cards[2]) = 5
    /\ RankOf(last_call.cards[3]) = 14
    /\ RankOf(last_call.cards[4]) = 5

(* the number of cards of a rank in a hand *)
CardsOfRank(cards, r) == Cardinality({i \in 1..Len(cards) : RankOf(cards[i]) = r})

(* the ranks of a hand, each with the number of cards that hold it, the
   ranks held most often first and, among the ranks held equally often, the
   higher first *)
RankGroups(cards) ==
    LET keyed == {CardsOfRank(cards, r) * 100 + r : r \in RanksOf(cards)}
        sorted == Reverse(SortedSet(keyed))
    IN  [i \in 1..Len(sorted) |-> [rank |-> sorted[i] % 100, count |-> sorted[i] \div 100]]

(* the category of a hand that is neither a straight nor a flush, by the
   numbers of cards of equal rank *)
CategoryByCounts(counts) ==
    IF counts = <<4, 1>> THEN FOUR_OF_A_KIND
    ELSE IF counts = <<3, 2>> THEN FULL_HOUSE
    ELSE IF counts = <<3, 1, 1>> THEN THREE_OF_A_KIND
    ELSE IF counts = <<2, 2, 1>> THEN TWO_PAIR
    ELSE IF counts = <<2, 1, 1, 1>> THEN PAIR
    ELSE HIGH_CARD

(* C31: for five distinct cards that are neither a straight nor a flush the
   category is given by the numbers of cards of equal rank (4+1 four of a
   kind, 3+2 full house, 3+1+1 three of a kind, 2+2+1 two pair, 2+1+1+1
   pair, else high card), and the tiebreak sequence lists the ranks of the
   groups, the largest group first, then the other ranks in descending
   order. *)
C31_CategoryByRankCounts ==
    (pc = "evaluated" /\ ~Straight(last_call.cards)
       /\ Cardinality(SuitsOf(last_call.cards)) > 1)
    => LET groups == RankGroups(last_call.cards)
       IN  last_call.ret =
               HandEvaluation(CategoryByCounts([i \in 1..Len(groups) |-> groups[i].count]),
                              [i \in 1..Len(groups) |-> groups[i].rank])

C31_Witness ==
    /\ pc = "evaluated"
    /\ last_call.ret = HandEvaluation(FULL_HOUSE, <<5, 14>>)
    /\ RankOf(last_call.cards[1]) = 14
    /\ RankOf(last_call.cards[2]) = 5

(* the 21 ways to take five of seven cards, as positions *)
FiveOfSeven == {SortedSet(S) : S \in {T \in SUBSET (1..7) : Cardinality(T) = 5}}

(* C32: for seven cards _get_best_hand returns the maximum, in the order by
   category and then by tiebreak sequence, of the evaluations of the 21
   five-card subsets: it is the evaluation of one of them and none of them
   is greater. *)
C32_BestOfSeven ==
    pc = "best_hand"
    => LET cards == last_call.cards
           evaluations == {evaluate([j \in 1..5 |-> cards[five[j]]]) : five \in FiveOfSeven}
       IN  /\ Cardinality(FiveOfSeven) = 21
           /\ last_call.ret \in evaluations
           /\ \A e \in evaluations : EvalLe(e, last_call.ret) /\ ~EvalGt(e, last_call.ret)

C32_Witness ==
    /\ pc = "best_hand"
    /\ last_call.ret.rank = FOUR_OF_A_KIND
    /\ evaluate(SubSeq(last_call.cards, 1, 5)).rank = PAIR
    /\ evaluate(SubSeq(last_call.cards, 2, 6)).rank = THREE_OF_A_KIND

(* C33: between the sessions of a benchmark the players' counters
   total_hands and hands_won are reset to zero while total_winnings is left
   unchanged. *)
C33_CountersBetweenSessions ==
    [][(pc = "run_benchmark" /\ pc' = "simulate_session")
       => \A p \in DOMAIN ai_players :
              /\ ai_players'[p].total_hands = 0
              /\ ai_players'[p].hands_won = 0
              /\ ai_players'[p].total_winnings = ai_players[p].total_winnings]_vars

(* C34: in every hand played by the orchestrator at least one player
   remains non-folded (the last non-folded player does not fold), so the
   showdown never fails. *)
C34_SomeoneStaysIn ==
    /\ pc \in {"street", "betting", "for", "await", "showdown", "next_hand"}
           => NonFolded(game) # <<>>
    /\ pc # "hand_failed"

(* C35: no agent is asked for a decision when at most one non-folded
   player remains, also when the other players folded earlier in the same
   pass over the players to act. *)
C35_NoSolicitWhenDecided ==
    [][(pc = "for" /\ pc' = "await") => Len(NonFolded(game)) > 1]_vars

(* C36: the amounts credited by _determine_winner sum to the whole pot,
   for every number of tied winners and every pot size, so that the
   stacks grow by exactly the pot. *)
C36_WholePotCredited ==
    [][(pc = "showdown" /\ pc' = "next_hand")
       => /\ SumOver(winners', DOMAIN winners') = game.pot
          /\ SumOver(game'.chips, DOMAIN game'.chips)
                 = SumOver(game.chips, DOMAIN game.chips) + game.pot]_vars

(* C37: in every reachable state of a hand, with the small blind at most
   the big blind, every player's contribution to the current street is at
   most the bet-to-match, so the amount to call is never negative. *)
C37_BetsWithinCurrentBet ==
    (game.small_blind <= game.big_blind /\ game.player_bets # <<>>)
    => \A p \in Range(game.players) :
           /\ game.player_bets[p] <= game.current_bet
           /\ CallAmount(game, p) >= 0

C37_Witness ==
    /\ pc = "engine_hand"
    /\ last_call.method = "process_action"
    /\ last_call.action.action = RAISE
    /\ last_call.ret = "value"
    /\ game.current_bet > game.big_blind
    /\ game.player_bets[last_call.player] = game.current_bet
    /\ \E p \in Range(game.players) : CallAmount(game, p) > 0

(* C38: every entry of the hand log and every recorded action is an
   action the engine accepted and applied: an action that process_action
   rejected, such as a check by a player who owes chips, is neither logged
   nor recorded. *)
C38_OnlyAcceptedLogged ==
    [][(pc = "await" /\ pc' # "await" /\ last_call'.method = "process_action"
          /\ last_call'.ret # "value")
       => (hand_actions' = hand_actions /\ db_calls' = db_calls)]_vars

(* the hole cards of the given players, one after the other *)
RECURSIVE HoleCardsOf(_, _)
HoleCardsOf(g, i) ==
    IF i > Len(g.active_players) THEN <<>>
    ELSE g.hole_cards[g.active_players[i]] \o HoleCardsOf(g, i + 1)

(* the cards of a hand: the deck, the hole cards and the community cards *)
CardsInPlay(g) == g.deck \o HoleCardsOf(g, 1) \o g.community_cards

(* C39: within a hand the cards in play are pairwise distinct, every
   player who had chips when the hand started holds exactly two hole cards,
   and the deck together with the dealt cards is the 52 distinct cards. *)
C39_CardsDistinct ==
    game.deck # <<>>
    => /\ DOMAIN game.hole_cards = Range(game.active_players)
       /\ \A p \in Range(game.active_players) : Len(game.hole_cards[p]) = 2
       /\ Len(CardsInPlay(game)) = NumCards
       /\ Range(CardsInPlay(game)) = Range(FreshDeck)
       /\ Cardinality(Range(FreshDeck)) = NumCards

C39_Witness ==
    /\ Len(game.community_cards) = 5
    /\ Len(game.active_players) = 2
    /\ Len(player_names) = 3
    /\ Len(game.deck) = NumCards - 9

(* the players with a blind posted on the table *)
BlindPosters(g) == {p \in DOMAIN g.player_bets : g.player_bets[p] > 0}

(* C40: whenever a hand starts with two or more players holding chips, the
   small and the big blind are posted by two different players, after any
   sequence of next_hand calls and eliminations and for every value of the
   dealer index. *)
C40_TwoBlindPosters ==
    /\ (pc = "engine_hand" /\ last_call.method = "start_hand"
           /\ Len(game.active_players) >= 2)
       => Cardinality(BlindPosters(game)) = 2
    /\ (pc = "engine_idle" /\ Len(SeatsWithChips(game)) >= 2)
       => \A dealer_position \in 0..MaxSeats, shuffled \in Shuffles :
              Cardinality(BlindPosters(
                  start_hand([game EXCEPT !.dealer_position = dealer_position],
                             shuffled).self)) = 2

C40_Witness ==
    /\ pc = "engine_hand"
    /\ last_call.method = "start_hand"
    /\ Len(player_names) = 3
    /\ Len(game.active_players) = 2
    /\ game.dealer_position = 1
    /\ BlindPosters(game) = Range(game.active_players)
    /\ game.player_bets[game.active_players[1]] = game.small_blind

=============================================================================
